---- MODULE Spec2Model ----
(***************************************************************************)
(* A model of src/f1_data.py: the link normaliser, the layered date        *)
(* parser, the schedule and classification table scrapers and the season   *)
(* aggregator.                                                             *)
(*                                                                         *)
(* Text.  A Python str is modelled as a sequence of tokens.  A token is a  *)
(* sequence of one-character strings when it is a maximal run of decimal   *)
(* digits (<<"2","9">> is "29"), and a one-element sequence holding a      *)
(* chunk of characters otherwise (<<"March">>, <<" ">>, <<"/wiki/">>).     *)
(* Chunks are chosen so that every literal the code searches for is one    *)
(* chunk; a text never holds two adjacent digit runs.  The two non-ASCII   *)
(* characters of the code are written "<ndash>" (U+2013, the en dash of    *)
(* "2-4 March") and "<rsquo>" (U+2019, the apostrophe the link normaliser  *)
(* strips).                                                                *)
(***************************************************************************)
EXTENDS Integers, Sequences, FiniteSets, TLC

\* ------------------------------------------------------------------ bounds

\* longest date text, in tokens
MaxDateLen == 6

\* longest href and longest race name, in tokens
MaxHrefLen == 4

MaxNameLen == 2

\* most tables on a page, and most rows after the header row of a table
MaxTables == 2

MaxRows == 3

\* most rows of the schedule table the aggregator walks; rounds and the
\* round limit range up to it
MaxRaces == 3

\* ------------------------------------------------------------------- text

DigitChars == {"0", "1", "2", "3", "4", "5", "6", "7", "8", "9"}

DigitVal(c) ==
  CASE c = "0" -> 0 [] c = "1" -> 1 [] c = "2" -> 2 [] c = "3" -> 3
    [] c = "4" -> 4 [] c = "5" -> 5 [] c = "6" -> 6 [] c = "7" -> 7
    [] c = "8" -> 8 [] c = "9" -> 9

DigitChar(n) ==
  CASE n = 0 -> "0" [] n = 1 -> "1" [] n = 2 -> "2" [] n = 3 -> "3"
    [] n = 4 -> "4" [] n = 5 -> "5" [] n = 6 -> "6" [] n = 7 -> "7"
    [] n = 8 -> "8" [] n = 9 -> "9"

\* a maximal run of digits, the match of \d+
IsNum(t) == Len(t) > 0 /\ \A i \in 1..Len(t) : t[i] \in DigitChars

\* chunks made of ASCII letters only, the matches of [A-Za-z]+
LetterChunks ==
  {"January", "February", "March", "April", "May", "June", "July", "August",
   "September", "October", "November", "December", "march", "Mar", "laps",
   "TBD", "a", "b"}

IsWord(t) == Len(t) = 1 /\ t[1] \in LetterChunks

\* one whitespace character, a match of \s
IsSpace(t) == t = <<" ">>

RECURSIVE NumVal(_)
\* the value of a run of decimal digits
NumVal(t) ==
  IF Len(t) = 0 THEN 0
  ELSE 10 * NumVal(SubSeq(t, 1, Len(t) - 1)) + DigitVal(t[Len(t)])

RECURSIVE Decimal(_)
\* str(n) of a non-negative int, as a digit run
Decimal(n) ==
  IF n < 10 THEN <<DigitChar(n)>>
  ELSE Append(Decimal(n \div 10), DigitChar(n % 10))

RECURSIVE ZeroPad(_, _)
\* a digit run left-padded with zeros to a width, as %m, %d and %Y print
ZeroPad(t, width) == IF Len(t) >= width THEN t ELSE ZeroPad(<<"0">> \o t, width)

\* ------------------------------------------------------- datetime (stdlib)

\* date_obj of a failed parse
None == <<>>

IsLeap(y) == (y % 4 = 0 /\ y % 100 # 0) \/ y % 400 = 0

DaysInMonth(y, m) ==
  IF m = 2 THEN (IF IsLeap(y) THEN 29 ELSE 28)
  ELSE IF m \in {4, 6, 9, 11} THEN 30 ELSE 31

\* the date constructor accepts (y, m, d)
ValidDate(y, m, d) ==
  /\ y \in 1..9999
  /\ m \in 1..12
  /\ d \in 1..DaysInMonth(y, m)

MonthNames ==
  <<"January", "February", "March", "April", "May", "June", "July", "August",
    "September", "October", "November", "December">>

\* %B is matched ignoring case
FoldCase(w) == IF w = "march" THEN "March" ELSE w

\* month number of a full English month name, 0 when it is none
MonthOf(w) ==
  IF \E m \in 1..12 : MonthNames[m] = FoldCase(w)
  THEN CHOOSE m \in 1..12 : MonthNames[m] = FoldCase(w)
  ELSE 0

\* %d: 3[0-1] | [1-2]\d | 0[1-9] | [1-9], followed by a non-digit
IsDayField(t) == IsNum(t) /\ Len(t) <= 2 /\ NumVal(t) \in 1..31

\* %m: 1[0-2] | 0[1-9] | [1-9], followed by a non-digit
IsMonthField(t) == IsNum(t) /\ Len(t) <= 2 /\ NumVal(t) \in 1..12

\* %Y: \d\d\d\d, followed by a non-digit
IsYearField(t) == IsNum(t) /\ Len(t) = 4

\* datetime.strptime(s, "%Y-%m-%d").date(), None for ValueError
StrpYMD(s) ==
  IF /\ Len(s) = 5
     /\ IsYearField(s[1]) /\ s[2] = <<"-">>
     /\ IsMonthField(s[3]) /\ s[4] = <<"-">>
     /\ IsDayField(s[5])
     /\ ValidDate(NumVal(s[1]), NumVal(s[3]), NumVal(s[5]))
  THEN <<NumVal(s[1]), NumVal(s[3]), NumVal(s[5])>>
  ELSE None

RECURSIVE SkipSpaces(_, _)
\* the first position at or after p that holds no whitespace
SkipSpaces(s, p) ==
  IF p <= Len(s) /\ IsSpace(s[p]) THEN SkipSpaces(s, p + 1) ELSE p

\* datetime.strptime(s, "%d %B %Y").date(), None for ValueError.  The format
\* compiles to <d>\s+<B>\s+<Y>, where <d> also admits a space and one digit.
StrpDBY(s) ==
  LET p0 == IF Len(s) >= 2 /\ IsSpace(s[1]) /\ IsNum(s[2]) /\ Len(s[2]) = 1
            THEN 2 ELSE 1
      p1 == SkipSpaces(s, p0 + 1)
      p2 == SkipSpaces(s, p1 + 1)
  IN IF /\ p0 <= Len(s) /\ IsDayField(s[p0])
        /\ p1 > p0 + 1 /\ p1 <= Len(s) /\ IsWord(s[p1]) /\ MonthOf(s[p1][1]) # 0
        /\ p2 > p1 + 1 /\ p2 = Len(s) /\ IsYearField(s[p2])
        /\ ValidDate(NumVal(s[p2]), MonthOf(s[p1][1]), NumVal(s[p0]))
     THEN <<NumVal(s[p2]), MonthOf(s[p1][1]), NumVal(s[p0])>>
     ELSE None

\* date.strftime("%Y-%m-%d")
StrfYMD(d) ==
  <<ZeroPad(Decimal(d[1]), 4), <<"-">>, ZeroPad(Decimal(d[2]), 2), <<"-">>,
    ZeroPad(Decimal(d[3]), 2)>>

\* ------------------------------------------------------- parse_date_cell

\* re.match(r"^\d{4}-\d{2}-\d{2}$", date_text)
MatchIso(s) ==
  /\ Len(s) = 5
  /\ IsNum(s[1]) /\ Len(s[1]) = 4 /\ s[2] = <<"-">>
  /\ IsNum(s[3]) /\ Len(s[3]) = 2 /\ s[4] = <<"-">>
  /\ IsNum(s[5]) /\ Len(s[5]) = 2

\* the last one or two digits of a digit run: where \d{1,2}\s+ can match
DayTail(t) == IF Len(t) <= 2 THEN t ELSE SubSeq(t, Len(t) - 1, Len(t))

RECURSIVE FindAll(_, _)
\* re.findall(r"(\d{1,2}\s+[A-Za-z]+)", s) scanning from position p: the
\* non-overlapping matches, left to right
FindAll(s, p) ==
  IF p > Len(s) THEN <<>>
  ELSE LET q == SkipSpaces(s, p + 1)
       IN IF IsNum(s[p]) /\ q > p + 1 /\ q <= Len(s) /\ IsWord(s[q])
          THEN <<(<<DayTail(s[p])>> \o SubSeq(s, p + 1, q))>> \o FindAll(s, q + 1)
          ELSE FindAll(s, p + 1)

\* matches[0] where the code takes matches[-1]
FirstOf(matches) == matches[1]

\* matches[-1]
LastOf(matches) == matches[Len(matches)]

\* parse_date_cell(date_text, season): date_norm, date_obj and the line of
\* the return statement taken
parse_date_cell(date_text, season) ==
  LET dt2     == StrpYMD(date_text)
      matches == FindAll(date_text, 1)
      combo   == LastOf(matches) \o <<(<<" ">>), Decimal(season)>>
      dtCombo == IF matches # <<>> THEN StrpDBY(combo) ELSE None
      dtWhole == StrpDBY(date_text)
  IN IF MatchIso(date_text) /\ dt2 # None
     THEN [date_str |-> date_text, date_obj |-> dt2, line |-> 62]
     ELSE IF matches # <<>> /\ dtCombo # None
     THEN [date_str |-> StrfYMD(dtCombo), date_obj |-> dtCombo, line |-> 77]
     ELSE IF dtWhole # None
     THEN [date_str |-> StrfYMD(dtWhole), date_obj |-> dtWhole, line |-> 86]
     ELSE [date_str |-> date_text, date_obj |-> None, line |-> 91]

\* --------------------------------------------------- normalize_race_link

RECURSIVE Contains(_, _)
\* needle in hay, for texts
Contains(hay, needle) ==
  IF Len(hay) < Len(needle) THEN FALSE
  ELSE \/ SubSeq(hay, 1, Len(needle)) = needle
       \/ Contains(Tail(hay), needle)

\* hay.startswith(needle)
StartsWith(hay, needle) ==
  Len(hay) >= Len(needle) /\ SubSeq(hay, 1, Len(needle)) = needle

RECURSIVE JoinRuns(_)
\* a token sequence with adjacent digit runs joined into one run
JoinRuns(s) ==
  IF Len(s) < 2 THEN s
  ELSE IF IsNum(s[1]) /\ IsNum(s[2])
  THEN JoinRuns(<<s[1] \o s[2]>> \o SubSeq(s, 3, Len(s)))
  ELSE <<s[1]>> \o JoinRuns(Tail(s))

RECURSIVE ReplaceRaw(_, _, _)
ReplaceRaw(s, old, new) ==
  IF s = <<>> THEN <<>>
  ELSE (IF Head(s) = old THEN new ELSE <<Head(s)>>) \o ReplaceRaw(Tail(s), old, new)

\* s.replace(old, new) for a one-character old; new is a text
Replace(s, old, new) == JoinRuns(ReplaceRaw(s, old, new))

\* f"/wiki/{season}_"
WikiSeasonPrefix(season) == <<(<<"/wiki/">>), Decimal(season), (<<"_">>)>>

\* normalize_race_link without the test for an already qualified href
RequalifyAlways(season, race_name, href) ==
  IF StartsWith(href, <<(<<"/wiki/">>)>>)
  THEN WikiSeasonPrefix(season)
       \o Replace(Replace(race_name, <<" ">>, <<(<<"_">>)>>), <<"<rsquo>">>, <<>>)
  ELSE href

\* normalize_race_link(season, race_name, href)
normalize_race_link(season, race_name, href) ==
  IF StartsWith(href, <<(<<"/wiki/">>)>>)
     /\ ~Contains(href, WikiSeasonPrefix(season))
  THEN LET cleaned_name ==
             Replace(Replace(race_name, <<" ">>, <<(<<"_">>)>>), <<"<rsquo>">>, <<>>)
       IN WikiSeasonPrefix(season) \o cleaned_name
  ELSE href

\* ------------------------------------------------------------ HTML pages
\* A fetched page is [ok, tables]: ok is FALSE when get_wiki_soup raised
\* requests.RequestException; tables are the <table class="wikitable">
\* elements in document order.  A table is the sequence of its <tr> rows, a
\* row the sequence of its cells, a cell [tag, text, a] with tag "th" or
\* "td", text its get_text(strip=True) and a its first <a>.

NoAnchor == [has |-> FALSE, name |-> <<>>, href |-> <<>>]

\* an <a> with its text and its href ("" or absent: <<>>)
Anchor(name, href) == [has |-> TRUE, name |-> name, href |-> href]

Th(text) == [tag |-> "th", text |-> text, a |-> NoAnchor]

Td(text) == [tag |-> "td", text |-> text, a |-> NoAnchor]

TdLink(name, href) == [tag |-> "td", text |-> name, a |-> Anchor(name, href)]

\* a one-chunk text
Txt(chunk) == <<(<<chunk>>)>>

IsTh(cell) == cell.tag = "th"

\* [th.get_text(strip=True) for th in cells.find_all("th")]
ThTexts(cells) ==
  LET ths == SelectSeq(cells, IsTh) IN [i \in 1..Len(ths) |-> ths[i].text]

RECURSIVE Flatten(_)
\* the cells of all the rows of a table, in document order
Flatten(tbl) == IF tbl = <<>> THEN <<>> ELSE Head(tbl) \o Flatten(Tail(tbl))

\* any(word in h for h in headers)
AnyContains(headers, word) ==
  \E i \in 1..Len(headers) : Contains(headers[i], Txt(word))

\* int(text): [ok, val]; ok is FALSE for ValueError
ParseInt(text) ==
  IF Len(text) = 1 /\ IsNum(text[1])
  THEN [ok |-> TRUE, val |-> NumVal(text[1])]
  ELSE IF Len(text) = 2 /\ text[1] \in {<<"-">>, <<"+">>} /\ IsNum(text[2])
  THEN [ok |-> TRUE,
        val |-> IF text[1] = <<"-">> THEN 0 - NumVal(text[2]) ELSE NumVal(text[2])]
  ELSE [ok |-> FALSE, val |-> 0]

\* float(points_text), with 0.0 for ValueError; the point texts of the model
\* are whole numbers or not numbers
ParsePoints(text) == IF ParseInt(text).ok THEN ParseInt(text).val ELSE 0

\* -------------------------------------------------------------- get_races

\* the header test of one table of the schedule page
IsScheduleTable(tbl) ==
  /\ tbl # <<>>
  /\ LET headers == ThTexts(tbl[1])
     IN AnyContains(headers, "Round") /\ AnyContains(headers, "Grand Prix")

\* the index of the table the loop breaks on, 0 for target_table = None
LocateSchedule(tables) ==
  IF \E i \in 1..Len(tables) : IsScheduleTable(tables[i])
  THEN CHOOSE i \in 1..Len(tables) :
         /\ IsScheduleTable(tables[i])
         /\ \A j \in 1..(i - 1) : ~IsScheduleTable(tables[j])
  ELSE 0

\* the row loop body, were a row whose date does not parse skipped
RaceOfDatedRow(season, cols) ==
  IF Len(cols) < 3 THEN <<>>
  ELSE IF ~ParseInt(cols[1].text).ok THEN <<>>
  ELSE IF ~cols[2].a.has \/ cols[2].a.href = <<>> THEN <<>>
  ELSE IF parse_date_cell(cols[3].text, season).date_obj = None THEN <<>>
  ELSE <<[round     |-> ParseInt(cols[1].text).val,
          race_name |-> cols[2].a.name,
          date_str  |-> parse_date_cell(cols[3].text, season).date_str,
          link      |-> normalize_race_link(season, cols[2].a.name, cols[2].a.href),
          date_obj  |-> parse_date_cell(cols[3].text, season).date_obj]>>

\* the body of the row loop: the descriptors one row appends (none or one)
RaceOfRow(season, cols) ==
  IF Len(cols) < 3 THEN <<>>
  ELSE IF ~ParseInt(cols[1].text).ok THEN <<>>
  ELSE IF ~cols[2].a.has \/ cols[2].a.href = <<>> THEN <<>>
  ELSE LET race_name == cols[2].a.name
           parsed    == parse_date_cell(cols[3].text, season)
       IN <<[round     |-> ParseInt(cols[1].text).val,
             race_name |-> race_name,
             date_str  |-> parsed.date_str,
             link      |-> normalize_race_link(season, race_name, cols[2].a.href),
             date_obj  |-> parsed.date_obj]>>

RECURSIVE RacesOfRows(_, _)
\* the races list after the loop over rows
RacesOfRows(season, rows) ==
  IF rows = <<>> THEN <<>>
  ELSE RaceOfRow(season, Head(rows)) \o RacesOfRows(season, Tail(rows))

RECURSIVE InsertByRound(_, _)
\* race put into a list sorted by round, after the races of the same round
InsertByRound(sorted, race) ==
  IF sorted = <<>> THEN <<race>>
  ELSE IF Head(sorted).round <= race.round
  THEN <<Head(sorted)>> \o InsertByRound(Tail(sorted), race)
  ELSE <<race>> \o sorted

RECURSIVE SortedByRoundFrom(_, _)
SortedByRoundFrom(sorted, rest) ==
  IF rest = <<>> THEN sorted
  ELSE SortedByRoundFrom(InsertByRound(sorted, Head(rest)), Tail(rest))

\* the races left in table order
Unsorted(races) == races

\* sorted(races, key=lambda x: x["round"]): ascending and stable
SortedByRound(races) == SortedByRoundFrom(<<>>, races)

\* get_races(season) on the fetched championship page
get_races(season, page) ==
  IF ~page.ok THEN <<>>
  ELSE IF LocateSchedule(page.tables) = 0 THEN <<>>
  ELSE SortedByRound(
         RacesOfRows(season, Tail(page.tables[LocateSchedule(page.tables)])))

\* ------------------------------------------------ parse_race_classification

\* the header test of one table of a race page
IsClassificationTable(tbl) ==
  LET headers == ThTexts(Flatten(tbl))
  IN AnyContains(headers, "Driver") /\ AnyContains(headers, "Points")

\* the index of the table the loop breaks on, 0 for target_table = None
LocateClassification(tables) ==
  IF \E i \in 1..Len(tables) : IsClassificationTable(tables[i])
  THEN CHOOSE i \in 1..Len(tables) :
         /\ IsClassificationTable(tables[i])
         /\ \A j \in 1..(i - 1) : ~IsClassificationTable(tables[j])
  ELSE 0

\* idx after the loop "for idx, h in enumerate(headers): if word in h: ..":
\* the 0-based index left by the last assignment, -1 for None
ColumnIndex(headers, word) ==
  LET hits == {i \in 1..Len(headers) : Contains(headers[i], Txt(word))}
  IN IF hits = {} THEN -1
     ELSE (CHOOSE i \in hits : \A j \in hits : j <= i) - 1

Max(a, b) == IF a >= b THEN a ELSE b

\* results[name] = pts on a dict kept as the sequence of its items in
\* insertion order
DictSet(d, name, pts) ==
  IF \E i \in 1..Len(d) : d[i].name = name
  THEN [i \in 1..Len(d) |-> IF d[i].name = name THEN [name |-> name, pts |-> pts]
                                                ELSE d[i]]
  ELSE Append(d, [name |-> name, pts |-> pts])

\* d.get(name, 0.0)
DictGet(d, name) ==
  IF \E i \in 1..Len(d) : d[i].name = name
  THEN (CHOOSE e \in {d[i] : i \in 1..Len(d)} : e.name = name).pts
  ELSE 0

RECURSIVE ResultsOfRows(_, _, _, _)
\* the results dict after the loop over rows, starting from results
ResultsOfRows(results, rows, idx_driver, idx_points) ==
  IF rows = <<>> THEN results
  ELSE LET cols == Head(rows)
       IN IF Len(cols) <= Max(idx_driver, idx_points)
          THEN ResultsOfRows(results, Tail(rows), idx_driver, idx_points)
          ELSE ResultsOfRows(
                 DictSet(results, cols[idx_driver + 1].text,
                         ParsePoints(cols[idx_points + 1].text)),
                 Tail(rows), idx_driver, idx_points)

\* parse_race_classification(relative_url) on the fetched race page
parse_race_classification(page) ==
  IF ~page.ok THEN <<>>
  ELSE IF LocateClassification(page.tables) = 0 THEN <<>>
  ELSE LET target_table == page.tables[LocateClassification(page.tables)]
           headers      == ThTexts(Flatten(target_table))
           idx_driver   == ColumnIndex(headers, "Driver")
           idx_points   == ColumnIndex(headers, "Points")
       IN IF idx_driver = -1 \/ idx_points = -1 THEN <<>>
          ELSE ResultsOfRows(<<>>, Tail(target_table), idx_driver, idx_points)

\* ------------------------------------------- get_all_results_up_to_race

RECURSIVE FoldOverwriting(_, _)
\* totals[drv] = pts where the code adds pts to totals.get(drv, 0.0)
FoldOverwriting(totals, pts_dict) ==
  IF pts_dict = <<>> THEN totals
  ELSE FoldOverwriting(DictSet(totals, Head(pts_dict).name, Head(pts_dict).pts),
                       Tail(pts_dict))

RECURSIVE Fold(_, _)
\* for drv, pts in pts_dict.items(): totals[drv] = totals.get(drv, 0.0) + pts
Fold(totals, pts_dict) ==
  IF pts_dict = <<>> THEN totals
  ELSE Fold(DictSet(totals, Head(pts_dict).name,
                    DictGet(totals, Head(pts_dict).name) + Head(pts_dict).pts),
            Tail(pts_dict))

RECURSIVE InsertByPoints(_, _)
\* item put into a list sorted by falling points, after the items with the
\* same points
InsertByPoints(sorted, item) ==
  IF sorted = <<>> THEN <<item>>
  ELSE IF Head(sorted).pts >= item.pts
  THEN <<Head(sorted)>> \o InsertByPoints(Tail(sorted), item)
  ELSE <<item>> \o sorted

RECURSIVE SortedByPointsFrom(_, _)
SortedByPointsFrom(sorted, rest) ==
  IF rest = <<>> THEN sorted
  ELSE SortedByPointsFrom(InsertByPoints(sorted, Head(rest)), Tail(rest))

RECURSIVE Reversed(_)
Reversed(seq) == IF seq = <<>> THEN <<>> ELSE Append(Reversed(Tail(seq)), Head(seq))

\* a descending sort that puts equal totals in reverse insertion order
SortedTiesReversed(items) == SortedByPointsFrom(<<>>, Reversed(items))

\* dict(sorted(totals.items(), key=lambda x: x[1], reverse=True)): descending
\* and stable
SortedByPointsDesc(items) == SortedByPointsFrom(<<>>, items)

\* ------------------------------------------------------------------ state

VARIABLES
  pc,          \* position of the call under way
  season,      \* the season argument
  date_text,   \* parse_date_cell: its argument
  date_ret,    \* parse_date_cell: what it returned
  race_name,   \* normalize_race_link: its arguments
  href,
  link1,       \* normalize_race_link(season, race_name, href)
  link2,       \* normalize_race_link(season, race_name, link1)
  page,        \* the page get_wiki_soup returned to the scraper
  target,      \* the scraper's target_table (index, 0 for None) and columns
  races,       \* get_races: its result
  results,     \* parse_race_classification: its result
  round_limit, \* get_all_results_up_to_race: its argument
  i,           \* position of the loop "for race in races", from 1
  totals,      \* the running totals, items in insertion order
  events,      \* the time.sleep and parse_race_classification calls made
  fetched,     \* per classification call: the race and the dict returned
  ret          \* get_all_results_up_to_race: what it returned

vars ==
  <<pc, season, date_text, date_ret, race_name, href, link1, link2, page,
    target, races, results, round_limit, i, totals, events, fetched, ret>>

dateVars == <<date_text, date_ret>>

linkVars == <<race_name, href, link1, link2>>

scrapeVars == <<page, target, races, results>>

aggVars == <<round_limit, i, totals, events, fetched, ret>>

NoReturn == [date_str |-> <<>>, date_obj |-> None, line |-> 0]

NoPage == [ok |-> FALSE, tables |-> <<>>]

IdleDate == date_text = <<>> /\ date_ret = NoReturn

IdleLink == race_name = <<>> /\ href = <<>> /\ link1 = <<>> /\ link2 = <<>>

NoTarget == [target_table |-> 0, idx_driver |-> -1, idx_points |-> -1]

IdleScrape == page = NoPage /\ target = NoTarget /\ races = <<>> /\ results = <<>>

IdleAgg ==
  /\ round_limit = 0 /\ i = 0 /\ totals = <<>> /\ events = <<>>
  /\ fetched = <<>> /\ ret = <<>>

\* the texts of at most n tokens over a token set, digit runs and letter
\* runs maximal
Texts(tokens, n) ==
  {s \in UNION {[1..k -> tokens] : k \in 0..n} :
     \A j \in 1..(Len(s) - 1) :
       /\ ~(IsNum(s[j]) /\ IsNum(s[j + 1]))
       /\ ~(IsWord(s[j]) /\ IsWord(s[j + 1]))}

Seasons == {2024, 2025}

\* ------------------------------------------------- parse_date_cell, alone

DateTokens ==
  {<<"0", "2">>, <<"2", "9">>, <<"2", "0", "2", "4">>, <<"February">>,
   <<"laps">>, <<" ">>, <<"-">>}

InitDate ==
  /\ pc = "call"
  /\ season \in Seasons
  /\ date_text \in Texts(DateTokens, MaxDateLen)
  /\ date_ret = NoReturn
  /\ IdleLink /\ IdleScrape /\ IdleAgg

ParseDate ==
  /\ pc = "call"
  /\ date_ret' = parse_date_cell(date_text, season)
  /\ pc' = "done"
  /\ UNCHANGED <<season, date_text, linkVars, scrapeVars, aggVars>>

SpecDate == InitDate /\ [][ParseDate]_vars

\* C4: parse_date_cell applies its layers in order and stops at the first
\* success: a valid YYYY-MM-DD text comes back unchanged with its date;
\* otherwise the LAST "<day> <word>" occurrence, read with the season as its
\* year, decides (so a range "d1-d2 Month" gives day d2 of the season);
\* only when there is no occurrence or it does not parse is the whole text
\* read as "day month year"; the return taken is that of the first layer
\* that succeeded.
Occurrences(text) ==
  {p \in 1..Len(text) :
     /\ IsNum(text[p])
     /\ \E q \in (p + 2)..Len(text) :
          /\ IsWord(text[q])
          /\ \A k \in (p + 1)..(q - 1) : IsSpace(text[k])}

LastOccurrence(text) ==
  CHOOSE p \in Occurrences(text) : \A r \in Occurrences(text) : r <= p

\* the date of the last occurrence read in a year, None when there is no
\* occurrence or it is no date
LastOccurrenceDate(text, year) ==
  IF Occurrences(text) = {} THEN None
  ELSE LET p == LastOccurrence(text)
           q == SkipSpaces(text, p + 1)
       IN StrpDBY(<<DayTail(text[p])>> \o SubSeq(text, p + 1, q)
                  \o <<(<<" ">>), Decimal(year)>>)

C4_Layer1 == IF MatchIso(date_text) THEN StrpYMD(date_text) ELSE None

C4_Layer2 == LastOccurrenceDate(date_text, season)

C4_Layer3 == StrpDBY(date_text)

C4_IsRange ==
  /\ Len(date_text) = 5
  /\ IsNum(date_text[1]) /\ date_text[2] = <<"-">> /\ IsDayField(date_text[3])
  /\ IsSpace(date_text[4]) /\ IsWord(date_text[5]) /\ MonthOf(date_text[5][1]) # 0
  /\ ValidDate(season, MonthOf(date_text[5][1]), NumVal(date_text[3]))

C4_DateLayering ==
  pc = "done" =>
    /\ IF C4_Layer1 # None
       THEN date_ret = [date_str |-> date_text, date_obj |-> C4_Layer1, line |-> 62]
       ELSE IF C4_Layer2 # None
       THEN /\ date_ret = [date_str |-> StrfYMD(C4_Layer2), date_obj |-> C4_Layer2,
                           line |-> 77]
            /\ C4_Layer2[1] = season
       ELSE IF C4_Layer3 # None
       THEN date_ret = [date_str |-> StrfYMD(C4_Layer3), date_obj |-> C4_Layer3,
                        line |-> 86]
       ELSE date_ret.line = 91 /\ date_ret.date_obj = None
    /\ C4_IsRange =>
         date_ret.date_obj =
           <<season, MonthOf(date_text[5][1]), NumVal(date_text[3])>>

\* a text with two occurrences whose last one gave the date
C4_Witness ==
  /\ pc = "done"
  /\ Cardinality(Occurrences(date_text)) >= 2
  /\ date_ret.line = 77
  /\ date_ret.date_obj[3] = NumVal(DayTail(date_text[LastOccurrence(date_text)]))
  /\ \E p \in Occurrences(date_text) :
       NumVal(DayTail(date_text[p])) # date_ret.date_obj[3]

\* --------------------------------------------- normalize_race_link, alone

HrefTokens == {<<"/wiki/">>, <<"2", "0", "2", "5">>, <<"_">>, <<"a">>}

NameTokens == {<<"a">>, <<" ">>, <<"<rsquo>">>}

InitLink ==
  /\ pc = "call"
  /\ season \in Seasons
  /\ race_name \in Texts(NameTokens, MaxNameLen)
  /\ href \in Texts(HrefTokens, MaxHrefLen)
  /\ link1 = <<>> /\ link2 = <<>>
  /\ IdleDate /\ IdleScrape /\ IdleAgg

\* href = normalize_race_link(season, race_name, raw_href)
NormalizeLink ==
  /\ pc = "call"
  /\ link1' = normalize_race_link(season, race_name, href)
  /\ pc' = "once"
  /\ UNCHANGED <<season, race_name, href, link2, dateVars, scrapeVars, aggVars>>

\* the normaliser applied to its own result
NormalizeAgain ==
  /\ pc = "once"
  /\ link2' = normalize_race_link(season, race_name, link1)
  /\ pc' = "twice"
  /\ UNCHANGED <<season, race_name, href, link1, dateVars, scrapeVars, aggVars>>

NextLink == NormalizeLink \/ NormalizeAgain

SpecLink == InitLink /\ [][NextLink]_vars

\* C5: normalize_race_link is idempotent for a fixed season and name, and it
\* returns verbatim an href that already starts with /wiki/<season>_ and any
\* href that does not start with /wiki/.
C5_LinkIdempotent ==
  /\ pc = "twice" => link2 = link1
  /\ pc \in {"once", "twice"} =>
       /\ StartsWith(href, WikiSeasonPrefix(season)) => link1 = href
       /\ ~StartsWith(href, <<(<<"/wiki/">>)>>) => link1 = href

\* a generic /wiki/ link was rebuilt and the second application kept it
C5_Witness ==
  /\ pc = "twice"
  /\ link1 # href
  /\ link2 = link1
  /\ Contains(race_name, <<(<<"<rsquo>">>)>>)

\* ------------------------------------------------------- get_races, alone

\* the pages whose tables are the given first rows, each followed by the
\* same rows; a first row <<>> stands for a table with no <tr> at all
PagesOf(heads, rows) ==
  {[ok |-> TRUE,
    tables |-> [k \in 1..Len(h) |-> IF h[k] = <<>> THEN <<>> ELSE <<h[k]>> \o body]] :
     h \in UNION {[1..n -> heads] : n \in 0..MaxTables},
     body \in UNION {[1..n -> rows] : n \in 0..MaxRows}}

ScheduleHeadRow == <<Th(Txt("Round")), Th(Txt("Grand Prix")), Th(Txt("Date"))>>

ScheduleHeads ==
  {<<>>,
   <<Th(<<(<<"Round">>), (<<"[a]">>)>>), Th(Txt("Grand Prix")), Th(Txt("Date"))>>,
   <<Th(Txt("Round")), Th(Txt("Date"))>>,
   <<Td(Txt("Round")), Td(Txt("Grand Prix")), Td(Txt("Date"))>>}

ScheduleRows ==
  {<<Td(<<(<<"1">>)>>), TdLink(Txt("a"), <<(<<"/wiki/">>), (<<"a">>)>>), Td(Txt("TBD"))>>,
   <<Td(<<(<<"2">>)>>),
     TdLink(Txt("b"), <<(<<"/wiki/">>), (<<"2", "0", "2", "5">>), (<<"_">>), (<<"b">>)>>),
     Td(<<(<<"0", "2">>), (<<"-">>), (<<"2", "9">>), (<<" ">>), (<<"February">>)>>)>>,
   <<Td(<<(<<"2">>)>>), TdLink(Txt("a"), <<(<<"/wiki/">>), (<<"a">>)>>),
     Td(<<(<<"2", "0", "2", "4">>), (<<"-">>), (<<"0", "2">>), (<<"-">>), (<<"2", "9">>)>>)>>,
   ScheduleHeadRow,
   <<Td(<<(<<"3">>)>>), Td(Txt("b")), Td(Txt("TBD"))>>,
   <<Td(<<(<<"3">>)>>), TdLink(Txt("b"), <<>>), Td(Txt("TBD"))>>,
   <<Td(<<(<<"1">>)>>), TdLink(Txt("a"), <<(<<"/wiki/">>), (<<"a">>)>>)>>}

InitRaces ==
  /\ pc = "call"
  /\ season = 2025
  /\ page \in {NoPage} \cup PagesOf(ScheduleHeads, ScheduleRows)
  /\ target = NoTarget /\ races = <<>> /\ results = <<>>
  /\ IdleDate /\ IdleLink /\ IdleAgg

\* races = get_races(season)
GetRaces ==
  /\ pc = "call"
  /\ races' = get_races(season, page)
  /\ target' = [NoTarget EXCEPT !.target_table =
                  IF page.ok THEN LocateSchedule(page.tables) ELSE 0]
  /\ pc' = "got_races"
  /\ UNCHANGED <<season, page, results, dateVars, linkVars, aggVars>>

SpecRaces == InitRaces /\ [][GetRaces]_vars

\* the rows after the first of the table get_races settled on
ScheduleBody ==
  IF target.target_table = 0 THEN <<>> ELSE Tail(page.tables[target.target_table])

\* a row the loop turns into a descriptor: three cells, an integer round and
\* a link with an href
Accepted(cols) ==
  /\ Len(cols) >= 3
  /\ ParseInt(cols[1].text).ok
  /\ cols[2].a.has /\ cols[2].a.href # <<>>

AcceptedRows == {k \in 1..Len(ScheduleBody) : Accepted(ScheduleBody[k])}

RoundOfRow(k) == ParseInt(ScheduleBody[k][1].text).val

\* C3 as stated: the rounds of the result are non-decreasing and no round
\* value appears twice, whatever the table.
C3_SortedUnique ==
  pc = "got_races" =>
    \A k, l \in 1..Len(races) : k < l => races[k].round < races[l].round

\* C3 as amended: the rounds of the result are non-decreasing, and the result
\* has one descriptor per accepted row, so a round value appears as often as
\* accepted rows carry it (once when the table does not repeat it).
C3_SortedPerRow ==
  pc = "got_races" =>
    /\ \A k, l \in 1..Len(races) : k < l => races[k].round <= races[l].round
    /\ \A r \in {RoundOfRow(k) : k \in AcceptedRows} \cup
                {races[k].round : k \in 1..Len(races)} :
         Cardinality({k \in 1..Len(races) : races[k].round = r})
           = Cardinality({k \in AcceptedRows : RoundOfRow(k) = r})

\* rows out of round order, one round repeated, and the result in order
C3_Witness ==
  /\ pc = "got_races"
  /\ Len(races) >= 3
  /\ \E k, l \in AcceptedRows : k < l /\ RoundOfRow(k) > RoundOfRow(l)
  /\ \E k, l \in AcceptedRows : k # l /\ RoundOfRow(k) = RoundOfRow(l)

\* every layer of parse_date_cell fails on a text
Unparseable(text, year) ==
  /\ ~(MatchIso(text) /\ StrpYMD(text) # None)
  /\ LastOccurrenceDate(text, year) = None
  /\ StrpDBY(text) = None

\* C7: an accepted row whose date text fails every layer still yields its
\* descriptor, with date_str the original text and date_obj None, and the
\* rows after it are still processed: the result holds one descriptor per
\* accepted row.
C7_UnparsedDateKept ==
  pc = "got_races" =>
    /\ Len(races) = Cardinality(AcceptedRows)
    /\ \A k \in AcceptedRows :
         Unparseable(ScheduleBody[k][3].text, season) =>
           \E n \in 1..Len(races) :
             /\ races[n].round = RoundOfRow(k)
             /\ races[n].race_name = ScheduleBody[k][2].a.name
             /\ races[n].date_str = ScheduleBody[k][3].text
             /\ races[n].date_obj = None

\* an accepted row with an unparseable date, followed by an accepted row
\* whose date parses, both in the result
C7_Witness ==
  /\ pc = "got_races"
  /\ \E k, l \in AcceptedRows :
       /\ k < l
       /\ Unparseable(ScheduleBody[k][3].text, season)
       /\ ~Unparseable(ScheduleBody[l][3].text, season)
       /\ \E n, m \in 1..Len(races) :
            /\ races[n].date_obj = None /\ races[n].round = RoundOfRow(k)
            /\ races[m].date_obj # None /\ races[m].round = RoundOfRow(l)

\* --------------------------------------- parse_race_classification, alone

ClassificationHeads ==
  {<<Th(Txt("Pos")), Th(Txt("Driver")), Th(Txt("Points"))>>,
   <<Th(Txt("Driver")), Th(<<(<<"Driver">>), (<<" nationality">>)>>), Th(Txt("Points"))>>,
   <<Th(Txt("Pos")), Th(Txt("Driver")), Th(Txt("Laps"))>>,
   <<Th(Txt("Points")), Th(Txt("Driver")), Th(<<(<<"Points">>), (<<"[b]">>)>>)>>}

ClassificationRows ==
  {<<Td(Txt("a")), Td(Txt("b")), Td(<<(<<"2">>)>>)>>,
   <<Td(<<(<<"1">>)>>), Td(Txt("a")), Td(Txt("DNF"))>>,
   <<Td(<<(<<"1">>)>>), Td(Txt("b")), Td(<<(<<"1">>)>>)>>,
   <<Th(<<(<<"2">>)>>), Td(Txt("a")), Td(<<(<<"1">>)>>)>>,
   <<Th(Txt("Points")), Td(Txt("b")), Td(<<(<<"2">>)>>)>>,
   <<Td(Txt("a")), Td(<<(<<"2">>)>>)>>}

InitClassification ==
  /\ pc = "call"
  /\ season = 2025
  /\ page \in {NoPage} \cup PagesOf(ClassificationHeads, ClassificationRows)
  /\ target = NoTarget /\ races = <<>> /\ results = <<>>
  /\ IdleDate /\ IdleLink /\ IdleAgg

\* the columns parse_race_classification settles on for a page
ColumnsOf(p) ==
  IF ~p.ok \/ LocateClassification(p.tables) = 0 THEN NoTarget
  ELSE LET headers == ThTexts(Flatten(p.tables[LocateClassification(p.tables)]))
       IN [target_table |-> LocateClassification(p.tables),
           idx_driver   |-> ColumnIndex(headers, "Driver"),
           idx_points   |-> ColumnIndex(headers, "Points")]

\* pts_dict = parse_race_classification(link)
ParseClassification ==
  /\ pc = "call"
  /\ results' = parse_race_classification(page)
  /\ target' = ColumnsOf(page)
  /\ pc' = "got_results"
  /\ UNCHANGED <<season, page, races, dateVars, linkVars, aggVars>>

SpecClassification == InitClassification /\ [][ParseClassification]_vars

\* the first table, in document order, whose FIRST ROW has a header cell
\* with each of two words; 0 when there is none
FirstByFirstRow(tables, word1, word2) ==
  LET Fits(tbl) == /\ tbl # <<>>
                   /\ AnyContains(ThTexts(tbl[1]), word1)
                   /\ AnyContains(ThTexts(tbl[1]), word2)
  IN IF \E k \in 1..Len(tables) : Fits(tables[k])
     THEN CHOOSE k \in 1..Len(tables) :
            Fits(tables[k]) /\ \A j \in 1..(k - 1) : ~Fits(tables[j])
     ELSE 0

\* the 0-based index of the leftmost header with a word, -1 when none has it
LeftmostIndex(headers, word) ==
  LET hits == {k \in 1..Len(headers) : Contains(headers[k], Txt(word))}
  IN IF hits = {} THEN -1
     ELSE (CHOOSE k \in hits : \A j \in hits : k <= j) - 1

\* C9: the Driver column and the Points column read are each the LEFTMOST
\* header cell holding the word: the names and points returned are those of
\* the leftmost matching columns.
C9_LeftmostColumn ==
  (pc = "got_results" /\ target.target_table # 0) =>
    LET tbl     == page.tables[target.target_table]
        headers == ThTexts(Flatten(tbl))
    IN /\ target.idx_driver = LeftmostIndex(headers, "Driver")
       /\ target.idx_points = LeftmostIndex(headers, "Points")
       /\ results = ResultsOfRows(<<>>, Tail(tbl),
                                  LeftmostIndex(headers, "Driver"),
                                  LeftmostIndex(headers, "Points"))

\* C10: the schedule lookup and the classification lookup both settle on the
\* first table whose FIRST ROW has header cells with both words; header
\* cells of later rows neither make a table match nor move the columns.
C10_FirstRowHeaders ==
  /\ pc = "got_races" =>
       target.target_table =
         (IF page.ok THEN FirstByFirstRow(page.tables, "Round", "Grand Prix") ELSE 0)
  /\ pc = "got_results" =>
       /\ target.target_table =
            (IF page.ok THEN FirstByFirstRow(page.tables, "Driver", "Points") ELSE 0)
       /\ target.target_table # 0 =>
            LET first_row == ThTexts(page.tables[target.target_table][1])
            IN /\ target.idx_driver + 1 \in 1..Len(first_row)
               /\ target.idx_points + 1 \in 1..Len(first_row)

\* the schedule half of C10 alone, which get_races keeps
ScheduleByFirstRow ==
  pc = "got_races" =>
    target.target_table =
      (IF page.ok THEN FirstByFirstRow(page.tables, "Round", "Grand Prix") ELSE 0)

\* ------------------------------------------- get_all_results_up_to_race

\* a schedule row of a round: its link is /wiki/<round>
RoundRow(r) ==
  <<Td(<<Decimal(r)>>), TdLink(<<Decimal(r)>>, <<(<<"/wiki/">>), Decimal(r)>>),
    Td(Txt("TBD"))>>

\* championship pages: the fetch failed, no schedule table, or one schedule
\* table whose rows carry rounds in any order, repeats included
SeasonPages ==
  {NoPage, [ok |-> TRUE, tables |-> <<>>]} \cup
  {[ok |-> TRUE,
    tables |-> <<(<<ScheduleHeadRow>> \o [k \in 1..Len(rs) |-> RoundRow(rs[k])])>>] :
     rs \in UNION {[1..m -> 1..MaxRaces] : m \in 0..MaxRaces}}

ResultsHeadRow == <<Th(Txt("Driver")), Th(Txt("Points"))>>

\* race pages: the fetch failed, no classification table, and three
\* classifications
RacePages ==
  {NoPage,
   [ok |-> TRUE, tables |-> <<>>],
   [ok |-> TRUE, tables |-> <<(<<ResultsHeadRow,
       <<Td(Txt("a")), Td(<<(<<"2">>)>>)>>, <<Td(Txt("b")), Td(<<(<<"1">>)>>)>>>>)>>],
   [ok |-> TRUE, tables |-> <<(<<ResultsHeadRow,
       <<Td(Txt("a")), Td(<<(<<"1">>)>>)>>, <<Td(Txt("b")), Td(<<(<<"2">>)>>)>>>>)>>],
   [ok |-> TRUE, tables |-> <<(<<ResultsHeadRow, <<Td(Txt("b")), Td(Txt("DNF"))>>>>)>>]}

InitAggregate ==
  /\ pc = "call"
  /\ season = 2025
  /\ round_limit \in 0..MaxRaces
  /\ page \in SeasonPages
  /\ target = NoTarget /\ races = <<>> /\ results = <<>>
  /\ i = 0 /\ totals = <<>> /\ events = <<>> /\ fetched = <<>> /\ ret = <<>>
  /\ IdleDate /\ IdleLink

\* races = get_races(season); if not races: return {}; totals = {}
AggStart ==
  /\ pc = "call"
  /\ races' = get_races(season, page)
  /\ target' = [NoTarget EXCEPT !.target_table =
                  IF page.ok THEN LocateSchedule(page.tables) ELSE 0]
  /\ IF races' = <<>>
     THEN pc' = "returned" /\ i' = i
     ELSE pc' = "loop" /\ i' = 1
  /\ UNCHANGED <<season, page, results, round_limit, totals, events, fetched, ret,
                 dateVars, linkVars>>

\* time.sleep(1), were it made only after a fetch that returned results
AggSleepAfterSuccess ==
  /\ pc = "loop"
  /\ i <= Len(races) /\ races[i].round <= round_limit
  /\ events' = IF fetched # <<>> /\ fetched[Len(fetched)].pts_dict = <<>>
               THEN events ELSE Append(events, "sleep")
  /\ pc' = "fetch"
  /\ UNCHANGED <<season, page, target, races, results, round_limit, i, totals,
                 fetched, ret, dateVars, linkVars>>

\* the loop takes the next race, its round is within the limit: time.sleep(1)
AggSleep ==
  /\ pc = "loop"
  /\ i <= Len(races) /\ races[i].round <= round_limit
  /\ events' = Append(events, "sleep")
  /\ pc' = "fetch"
  /\ UNCHANGED <<season, page, target, races, results, round_limit, i, totals,
                 fetched, ret, dateVars, linkVars>>

\* pts_dict = parse_race_classification(race["link"]) on whatever page the
\* fetch brings, and the fold of pts_dict into totals
AggFetch ==
  /\ pc = "fetch"
  /\ \E race_page \in RacePages :
       LET pts_dict == parse_race_classification(race_page)
       IN /\ fetched' = Append(fetched, [round    |-> races[i].round,
                                         link     |-> races[i].link,
                                         pts_dict |-> pts_dict])
          /\ totals' = IF pts_dict = <<>> THEN totals ELSE Fold(totals, pts_dict)
  /\ events' = Append(events, "fetch")
  /\ i' = i + 1
  /\ pc' = "loop"
  /\ UNCHANGED <<season, page, target, races, results, round_limit, ret,
                 dateVars, linkVars>>

\* the loop ends (no race left, or break on a round above the limit) and the
\* sorted totals are returned
AggReturn ==
  /\ pc = "loop"
  /\ (IF i > Len(races) THEN TRUE ELSE races[i].round > round_limit)
  /\ ret' = SortedByPointsDesc(totals)
  /\ pc' = "returned"
  /\ UNCHANGED <<season, page, target, races, results, round_limit, i, totals,
                 events, fetched, dateVars, linkVars>>

NextAggregate == AggStart \/ AggSleep \/ AggFetch \/ AggReturn

SpecAggregate == InitAggregate /\ [][NextAggregate]_vars

\* the accepted rows of the schedule table whose round is within the limit
EligibleRows == {k \in AcceptedRows : RoundOfRow(k) <= round_limit}

RECURSIVE SumPoints(_, _)
\* the points of a name summed over a sequence of fetches
SumPoints(log, name) ==
  IF log = <<>> THEN 0
  ELSE DictGet(Head(log).pts_dict, name) + SumPoints(Tail(log), name)

RECURSIVE ItemsOf(_)
\* the items of all the fetched classifications, in race and row order
ItemsOf(log) == IF log = <<>> THEN <<>> ELSE Head(log).pts_dict \o ItemsOf(Tail(log))

NamesOf(items) == {items[k].name : k \in 1..Len(items)}

\* where a name is first seen among the fetched classifications
FirstSeen(name) ==
  CHOOSE k \in 1..Len(ItemsOf(fetched)) :
    /\ ItemsOf(fetched)[k].name = name
    /\ \A j \in 1..(k - 1) : ItemsOf(fetched)[j].name # name

\* C1: the returned mapping holds, for each name, the sum of its points over
\* exactly the races with round <= round_limit (one fetch per such row of
\* the schedule); a race whose classification is empty adds nothing and the
\* races after it are still folded in.
C1_TotalsAreSums ==
  pc = "returned" =>
    /\ Len(fetched) = Cardinality(EligibleRows)
    /\ \A j \in 1..Len(fetched) : fetched[j].round <= round_limit
    /\ NamesOf(ret) = NamesOf(ItemsOf(fetched))
    /\ Len(ret) = Cardinality(NamesOf(ret))
    /\ \A k \in 1..Len(ret) : ret[k].pts = SumPoints(fetched, ret[k].name)

\* three races fetched, the middle one empty, the other two summed
C1_Witness ==
  /\ pc = "returned"
  /\ Len(fetched) = 3
  /\ fetched[1].pts_dict # <<>> /\ fetched[2].pts_dict = <<>>
  /\ fetched[3].pts_dict # <<>>
  /\ \E k \in 1..Len(ret) : ret[k].pts = 4

\* C2: a classification fetch is made for every race with round <=
\* round_limit, in ascending round order, and for no race above the limit;
\* the loop ends at the first race above the limit, before its delay.
C2_FetchesUpToLimit ==
  /\ \A j \in 1..Len(fetched) : fetched[j].round <= round_limit
  /\ \A j, k \in 1..Len(fetched) : j < k => fetched[j].round <= fetched[k].round
  /\ pc = "returned" =>
       /\ \A r \in {RoundOfRow(k) : k \in EligibleRows} :
            Cardinality({j \in 1..Len(fetched) : fetched[j].round = r})
              = Cardinality({k \in EligibleRows : RoundOfRow(k) = r})
       /\ Cardinality({k \in 1..Len(events) : events[k] = "sleep"})
            = Cardinality(EligibleRows)

\* a table out of round order with a race above the limit, and fetches made
C2_Witness ==
  /\ pc = "returned"
  /\ Len(fetched) >= 2
  /\ \E k \in AcceptedRows : RoundOfRow(k) > round_limit
  /\ \E k, l \in AcceptedRows :
       k < l /\ RoundOfRow(k) > round_limit /\ RoundOfRow(l) <= round_limit

\* C6: the returned mapping is in order of non-increasing points, and names
\* with equal totals are in the order in which they were first seen (first
\* race, then row), so the order is a function of the inputs.
C6_RankedStable ==
  pc = "returned" =>
    \A k, l \in 1..Len(ret) :
      k < l =>
        \/ ret[k].pts > ret[l].pts
        \/ /\ ret[k].pts = ret[l].pts
           /\ FirstSeen(ret[k].name) < FirstSeen(ret[l].name)

\* a tie between two names, the one first seen in front although it comes
\* second in the later race's table
C6_Witness ==
  /\ pc = "returned"
  /\ Len(ret) = 2
  /\ ret[1].pts = ret[2].pts /\ ret[1].pts > 0
  /\ ret[1].name = Txt("b")
  /\ Len(fetched) = 3

\* C8: every classification fetch comes right after exactly one delay, made
\* after the previous fetch and fold, whatever that fetch returned; delays
\* and fetches are equal in number, and there is none when the schedule is
\* empty.
C8_PacedFetches ==
  /\ \A k \in 1..Len(events) : events[k] = (IF k % 2 = 1 THEN "sleep" ELSE "fetch")
  /\ Len(events) = 2 * Len(fetched) + (IF pc = "fetch" THEN 1 ELSE 0)
  /\ races = <<>> => events = <<>>
  /\ pc = "returned" => Len(events) = 2 * Cardinality(EligibleRows)

\* a delay and a fetch made after a fetch that returned nothing
C8_Witness ==
  /\ pc = "returned"
  /\ Len(fetched) = 3
  /\ fetched[1].pts_dict = <<>> /\ fetched[2].pts_dict # <<>>
  /\ events = <<"sleep", "fetch", "sleep", "fetch", "sleep", "fetch">>

====
